---------------------------- MODULE Spec2Model ----------------------------
(***************************************************************************)
(* A model of the xk6-imap EmailClient (src/client/client.go): one client  *)
(* object owning one IMAP connection, the JavaScript caller that invokes   *)
(* its methods one at a time, and the background goroutines started by     *)
(* WaitNewEmail.  The IMAP server and the go-imap transport are the        *)
(* environment: every transport call is a blocking round trip whose        *)
(* answer is chosen nondeterministically when it returns.                  *)
(***************************************************************************)
EXTENDS Integers, Sequences, FiniteSets, TLC

(***************************************************************************)
(* Bounds of the model.                                                    *)
(***************************************************************************)
MaxWatchers == 2
MaxId == 2
MaxClock == 7
MaxTimeoutMs == 4000
\* More iterations than a watch of MaxTimeoutMs can run.
MaxIterations == 4
\* Longest list value of a header filter.
MaxListLen == 2
\* Most lines of a header section.
MaxHeaderLines == 4
\* Most addresses of an envelope's From list.
MaxAddrs == 3

(***************************************************************************)
(* Program constants.                                                      *)
(***************************************************************************)
\* pollInterval := 2 * time.Second
PollInterval == 2
\* searchSince := startTime.Add(-1 * time.Second)
SinceSkew == 1
\* messages := make(chan *imap.Message, 1)
ChanCap == 1
\* time.Second / time.Millisecond: the clock of the model counts seconds,
\* timeoutMs counts milliseconds.
MsPerSecond == 1000

Watchers == 1..MaxWatchers
Ids == 1..MaxId
\* The zero time.Time (IsZero); every real instant is a positive number.
ZeroTime == 0
Dates == 0..MaxClock
Timeouts == {0, 1500, MaxTimeoutMs}
\* The cutoffs a caller passes to DeleteEmailsOlderThan (Unix seconds).
BeforeTimestamps == {3, 6}

\* The header filters a caller passes.  Values are tagged with their Go
\* dynamic type: <<"string", s>>, <<"list", items>> ([]interface{}),
\* <<"strings", seq>> ([]string), <<"other", x>>.
HeaderObjs ==
  { [k \in {"Subject"} |-> <<"string", "hello">>],
    [k \in {"X-Test", "X-Num"} |->
        IF k = "X-Test" THEN <<"list", << <<"string", "a">>, <<"other", 7>>, <<"string", "b">> >> >>
                        ELSE <<"other", 7>>] }

RECURSIVE StringItems(_)
\* for _, item := range v { if str, ok := item.(string); ok { append } }
StringItems(v) ==
  IF v = << >> THEN << >>
  ELSE IF Head(v)[1] = "string" THEN << Head(v)[2] >> \o StringItems(Tail(v))
       ELSE StringItems(Tail(v))

\* The keys convertJSObjectToMIMEHeader emits for obj.
HeaderKeys(obj) ==
  { k \in DOMAIN obj :
      \/ obj[k][1] = "string"
      \/ obj[k][1] = "strings"
      \/ obj[k][1] = "list" /\ Len(StringItems(obj[k][2])) > 0 }

\* The MIMEHeader, as the set of its <<key, values>> entries.
convertJSObjectToMIMEHeader(obj) ==
  { <<k, CASE obj[k][1] = "string"  -> << obj[k][2] >>
           [] obj[k][1] = "strings" -> obj[k][2]
           [] obj[k][1] = "list"    -> StringItems(obj[k][2])>> : k \in HeaderKeys(obj) }

(***************************************************************************)
(* messageToMap: the headers.  A line of the header section is a field     *)
(* line (it holds a colon and does not start with white space), a          *)
(* continuation line (it starts with a space or a tab), a blank line, or   *)
(* any other line.  A value is the sequence of the pieces of text it was   *)
(* put together from.                                                      *)
(***************************************************************************)
Field(name, value) == [kind |-> "field", name |-> name, text |-> value]
Continuation(text) == [kind |-> "cont", name |-> "", text |-> text]
BlankLine == [kind |-> "blank", name |-> "", text |-> ""]
OtherLine == [kind |-> "other", name |-> "", text |-> "junk"]

\* strings.ToLower, on the names a header section of the model holds.
ToLower(name) ==
  CASE name = "X-Test" -> "x-test"
    [] name = "Subject" -> "subject"
    [] OTHER -> name

\* headers[key] = v
Put(h, key, v) == [k \in DOMAIN h \cup {key} |-> IF k = key THEN v ELSE h[k]]

\* if len(currentValues) == 1 { currentValues[0] } else { currentValues }
ScalarOrList(values) ==
  IF Len(values) = 1 THEN <<"string", values[1]>> ELSE <<"list", values>>

\* "Salva l'header precedente": the header read last is stored when the next
\* field line is met.
SavePrevious(h, key, values) ==
  IF key = "" THEN h
  ELSE IF key \in DOMAIN h
         THEN IF h[key][1] = "list"
                THEN Put(h, key, <<"list", h[key][2] \o values>>)
                ELSE Put(h, key, <<"list", << h[key][2], values[1] >> >>)
         ELSE Put(h, key, ScalarOrList(values))

\* "Aggiungi l'ultimo header": the header read last is stored after the loop.
SaveLast(h, key, values) ==
  IF key = "" THEN h ELSE Put(h, key, ScalarOrList(values))

NoHeaders == [k \in {} |-> <<"string", << >> >>]

RECURSIVE ParseLines(_, _, _, _)
\* for _, line := range lines { ... }, then the last header.
ParseLines(lines, h, currentKey, currentValues) ==
  IF lines = << >> \/ Head(lines).kind = "blank"
    THEN SaveLast(h, currentKey, currentValues)
    ELSE LET line == Head(lines) IN
      CASE line.kind = "cont" ->
             IF currentKey # "" /\ Len(currentValues) > 0
               THEN ParseLines(Tail(lines), h, currentKey,
                               [currentValues EXCEPT ![Len(currentValues)] = @ \o <<" ", line.text>>])
               ELSE ParseLines(Tail(lines), h, currentKey, currentValues)
        [] line.kind = "field" ->
             ParseLines(Tail(lines), SavePrevious(h, currentKey, currentValues),
                        ToLower(line.name), << << line.text >> >>)
        [] OTHER -> ParseLines(Tail(lines), h, currentKey, currentValues)

\* The headers key of the result: absent when no header was read.
headers(lines) ==
  LET h == ParseLines(lines, NoHeaders, "", << >>)
  IN  IF DOMAIN h = {} THEN <<"absent">> ELSE <<"map", h>>

(***************************************************************************)
(* messageToMap: the From addresses.  A formatted address is the sequence  *)
(* of the pieces of text fmt.Sprintf puts together.                        *)
(***************************************************************************)
Address(mailbox, host) == [MailboxName |-> mailbox, HostName |-> host]

RECURSIVE fromAddrs(_)
\* for _, addr := range msg.Envelope.From { ... append ... }
fromAddrs(From) ==
  IF From = << >> THEN << >>
  ELSE LET addr == Head(From) IN
    IF addr.MailboxName # "" /\ addr.HostName # ""
      THEN << <<addr.MailboxName, "@", addr.HostName>> >> \o fromAddrs(Tail(From))
      ELSE IF addr.MailboxName # ""
             THEN << <<addr.MailboxName>> >> \o fromAddrs(Tail(From))
             ELSE fromAddrs(Tail(From))

\* The from key of the result: absent, a string or a list of strings.
from(From) ==
  IF Len(From) > 0
    THEN IF Len(fromAddrs(From)) = 1
           THEN <<"string", fromAddrs(From)[1]>>
           ELSE <<"list", fromAddrs(From)>>
    ELSE <<"absent">>

(***************************************************************************)
(* Transport answers.                                                      *)
(***************************************************************************)
RECURSIVE SeqsOver(_, _)
\* All sequences without repetition over S of length at most n.
SeqsOver(S, n) ==
  IF n = 0 THEN { << >> }
  ELSE LET shorter == SeqsOver(S, n - 1)
       IN  shorter \cup { Append(s, x) : s \in shorter, x \in S }

Range(s) == { s[i] : i \in DOMAIN s }

\* A SEARCH answer lists message sequence numbers, each once.
SearchResults == { s \in SeqsOver(Ids, MaxId) : Cardinality(Range(s)) = Len(s) }

NoMsg == [SeqNum |-> 0, InternalDate |-> ZeroTime]
\* What the channel of a FETCH of one id gives: the message, or nil when the
\* channel was closed empty.
Messages(D) == { [SeqNum |-> id, InternalDate |-> d] : id \in Ids, d \in D } \cup {NoMsg}

VARIABLES
  now,          \* wall clock, in seconds
  client,       \* EmailClient.client: "nil" or "conn"
  connState,    \* state of the connection: "none", "notauth", "auth", "logout"
  mailbox,      \* mode of the most recent successful select: "none", "ro", "rw"
  cpc,          \* where the caller is
  creq,         \* the transport request the caller has in flight
  carg,         \* arguments of the caller's current (or last) call
  cids,         \* ids of the caller's last search
  cret,         \* what the caller's last call returned
  ctrace,       \* transport requests issued by the caller's current (or last) call
  cerr,         \* err of the caller's call: "", or the transport call that failed last
  messages,     \* messages := make(chan *imap.Message, 1) of the module-level Read
  unsent,       \* messages the fetch in flight has still to send to that channel
  wpc,          \* where each WaitNewEmail goroutine is
  wreq,         \* the transport request each goroutine has in flight
  timeoutMs,    \* argument of each WaitNewEmail call
  headerObj,    \* argument of each WaitNewEmail call
  header,       \* header := convertJSObjectToMIMEHeader(headerObj)
  startTime,    \* startTime := time.Now()
  searchSince,  \* searchSince := startTime.Add(-1 * time.Second)
  iteration,    \* iteration counter of the loop
  elapsed,      \* elapsed := time.Since(startTime), in seconds
  skippedIDs,   \* skippedIDs := make(map[uint32]bool)
  err,          \* which call last set err: "", "select", "search", "fetch"
  ids,          \* ids, err := e.client.Search(criteria)
  latestID,     \* latestID := ids[len(ids)-1]
  msg,          \* msg := <-messages
  received,     \* what the channel gave: "none", "nil", "msg"
  wakeAt,       \* the instant a sleeping goroutine may wake up
  promise,      \* the promise each call returned
  hist          \* per goroutine: what it has done so far (observation only)

chanvars == <<messages, unsent>>
cvars == <<cpc, creq, carg, cids, cret, ctrace, cerr, chanvars>>
wlocals == <<timeoutMs, headerObj, header, startTime, searchSince, iteration,
             elapsed, skippedIDs, err, ids, latestID, msg, received, wakeAt>>
wvars == <<wpc, wreq, wlocals, promise, hist>>
connvars == <<client, connState, mailbox>>
vars == <<now, connvars, cvars, wvars>>

\* A transport request.  Every request has every field, so that requests of
\* different operations can be compared.
Req(op) == [op |-> op, readOnly |-> FALSE, header |-> {}, since |-> ZeroTime,
            before |-> ZeroTime, seqSet |-> {}, items |-> {}, flags |-> {}]
NoReq == Req("none")

\* A settled or pending promise.  value is the record messageToMap built.
NoValue == [keys |-> {}, uid |-> 0, internalDate |-> <<"", 0>>, internalDateTimestamp |-> 0]
Pending == [state |-> "pending", err |-> "", ms |-> 0, value |-> NoValue]
NoRet == [op |-> "none", err |-> "", count |-> 0, value |-> NoValue]

\* What hist records of one goroutine.
NoHist ==
  [ settles   |-> 0,                  \* calls of resolve or reject
    sleeps    |-> 0,                  \* sleeps started
    searches  |-> 0,                  \* searches issued
    fetches   |-> [i \in Ids |-> 0],  \* fetches issued, per id
    iterOps   |-> << >>,              \* requests issued in this iteration
    nonEmpty  |-> FALSE,              \* some search answered at least one id
    fetchOk   |-> FALSE,              \* some fetch returned without error
    staleOnly |-> 0 ]                 \* k > 0: every search so far answered <<k>> and every
                                      \* fetch a dated message not after startTime;
                                      \* 0: no search yet; -1: otherwise

EmptyObj == [k \in {} |-> <<"other", 0>>]
\* The parts of an *imap.Message that messageToMap decodes: the From list of
\* its envelope and the lines of its BODY[HEADER] section.
NoRaw == [From |-> << >>, Header |-> << >>]
NoArg == [headerObj |-> EmptyObj, before |-> 0, msg |-> NoRaw]

\* A channel: what it buffers, and whether it was closed.
NoChan == [buf |-> << >>, closed |-> FALSE]

\* The state after construction, but for the caller's arguments.
InitButArg ==
  /\ now = 1
  /\ client = "nil"
  /\ connState = "none"
  /\ mailbox = "none"
  /\ cpc = "idle"
  /\ creq = NoReq
  /\ cids = << >>
  /\ cret = NoRet
  /\ ctrace = << >>
  /\ cerr = ""
  /\ messages = NoChan
  /\ unsent = << >>
  /\ wpc = [w \in Watchers |-> "unused"]
  /\ wreq = [w \in Watchers |-> NoReq]
  /\ timeoutMs = [w \in Watchers |-> 0]
  /\ headerObj = [w \in Watchers |-> EmptyObj]
  /\ header = [w \in Watchers |-> {}]
  /\ startTime = [w \in Watchers |-> ZeroTime]
  /\ searchSince = [w \in Watchers |-> ZeroTime]
  /\ iteration = [w \in Watchers |-> 0]
  /\ elapsed = [w \in Watchers |-> 0]
  /\ skippedIDs = [w \in Watchers |-> {}]
  /\ err = [w \in Watchers |-> ""]
  /\ ids = [w \in Watchers |-> << >>]
  /\ latestID = [w \in Watchers |-> 0]
  /\ msg = [w \in Watchers |-> NoMsg]
  /\ received = [w \in Watchers |-> "none"]
  /\ wakeAt = [w \in Watchers |-> 0]
  /\ promise = [w \in Watchers |-> Pending]
  /\ hist = [w \in Watchers |-> NoHist]

Init ==
  /\ InitButArg
  /\ carg = NoArg

(***************************************************************************)
(* Helpers of the goroutine.                                               *)
(***************************************************************************)
\* Mutant: the timeout check allows for one more poll interval.
TimedOut_Early(el, T) == (el + PollInterval) * MsPerSecond >= T

\* Mutant: elapsed seconds compared with the timeout's milliseconds.
TimedOut_NoUnit(el, T) == el >= T

\* if elapsed >= timeoutDuration, with timeoutDuration := timeoutMs * time.Millisecond
TimedOut(el, T) == el * MsPerSecond >= T

\* latestID := ids[len(ids)-1]
Latest(s) == s[Len(s)]

\* Mutant: not before, instead of after.
After_OrEqual(t, u) == t >= u

\* t.After(u)
After(t, u) == t > u

\* !msg.InternalDate.IsZero() && msg.InternalDate.After(startTime)
IsNew(m, start) == m.InternalDate # ZeroTime /\ After(m.InternalDate, start)

\* Mutant: the uid key is filled from the message's UID, which is not fetched.
messageToMap_Uid(m) ==
  [ keys |-> {"uid"} \cup (IF m.InternalDate # ZeroTime
                              THEN {"internalDate", "internalDateTimestamp"} ELSE {}),
    uid |-> 0,
    internalDate |-> IF m.InternalDate # ZeroTime THEN <<"RFC3339", m.InternalDate>> ELSE <<"", 0>>,
    internalDateTimestamp |-> m.InternalDate ]

\* messageToMap for a message that carries INTERNALDATE: the keys it sets and
\* their values (the RFC 3339 text is kept as a tagged instant).
messageToMap(m) ==
  [ keys |-> {"uid"} \cup (IF m.InternalDate # ZeroTime
                              THEN {"internalDate", "internalDateTimestamp"} ELSE {}),
    uid |-> m.SeqNum,
    internalDate |-> IF m.InternalDate # ZeroTime THEN <<"RFC3339", m.InternalDate>> ELSE <<"", 0>>,
    internalDateTimestamp |-> m.InternalDate ]

\* The answers a transport call can get: an error at any time, success only
\* on a connection that is logged in.
Results == {"ok", "err"}
CanAnswer(r) == r = "err" \/ connState = "auth"

SelectReq(ro) == [Req("select") EXCEPT !.readOnly = ro]
SearchReq(h, since, before) == [Req("search") EXCEPT !.header = h, !.since = since, !.before = before]
FetchReq(id, items) == [Req("fetch") EXCEPT !.seqSet = {id}, !.items = items]
\* store(seqSet, "+FLAGS.SILENT", [\Deleted])
StoreReq(set) == [Req("store") EXCEPT !.seqSet = set, !.items = {"+FLAGS.SILENT"}, !.flags = {"\\Deleted"}]

\* The fetch items of WaitNewEmail and of Read.
WatchItems == {"ENVELOPE", "INTERNALDATE", "BODY[TEXT]", "BODY[HEADER]"}
ReadItems == {"ENVELOPE", "BODY[TEXT]", "BODY[HEADER]"}

\* A FETCH answers message m to request q: the message asked for, with an
\* internal date only if INTERNALDATE was asked for.
Answers(m, q) ==
  \/ m = NoMsg
  \/ /\ m.SeqNum \in q.seqSet
     /\ m.InternalDate # ZeroTime => "INTERNALDATE" \in q.items

\* How a step of goroutine w ends.  Each of these sets wpc, wreq, wakeAt,
\* promise and hist; h is what hist[w] has recorded by then.

\* time.Sleep(pollInterval); continue
Sleep(w, h) ==
  /\ wpc' = [wpc EXCEPT ![w] = "sleep"]
  /\ wreq' = [wreq EXCEPT ![w] = NoReq]
  /\ wakeAt' = [wakeAt EXCEPT ![w] = now + PollInterval]
  /\ hist' = [hist EXCEPT ![w] = [h EXCEPT !.sleeps = @ + 1]]
  /\ UNCHANGED promise

\* Mutant: reject(e); continue
Reject_Continue(w, e, ms, h) ==
  /\ promise' = [promise EXCEPT ![w] = [Pending EXCEPT !.state = "rejected", !.err = e, !.ms = ms]]
  /\ wpc' = [wpc EXCEPT ![w] = "top"]
  /\ wreq' = [wreq EXCEPT ![w] = NoReq]
  /\ hist' = [hist EXCEPT ![w] = [h EXCEPT !.settles = @ + 1]]
  /\ UNCHANGED wakeAt

\* reject(e); return
Reject(w, e, ms, h) ==
  /\ promise' = [promise EXCEPT ![w] = [Pending EXCEPT !.state = "rejected", !.err = e, !.ms = ms]]
  /\ wpc' = [wpc EXCEPT ![w] = "done"]
  /\ wreq' = [wreq EXCEPT ![w] = NoReq]
  /\ hist' = [hist EXCEPT ![w] = [h EXCEPT !.settles = @ + 1]]
  /\ UNCHANGED wakeAt

\* resolve(v); return
Resolve(w, v, h) ==
  /\ promise' = [promise EXCEPT ![w] = [Pending EXCEPT !.state = "resolved", !.value = v]]
  /\ wpc' = [wpc EXCEPT ![w] = "done"]
  /\ wreq' = [wreq EXCEPT ![w] = NoReq]
  /\ hist' = [hist EXCEPT ![w] = [h EXCEPT !.settles = @ + 1]]
  /\ UNCHANGED wakeAt

\* The goroutine calls the transport with request q and blocks at pc.
Call(w, pc, q, h) ==
  /\ wpc' = [wpc EXCEPT ![w] = pc]
  /\ wreq' = [wreq EXCEPT ![w] = q]
  /\ hist' = [hist EXCEPT ![w] = [h EXCEPT !.iterOps = Append(@, q)]]
  /\ UNCHANGED <<wakeAt, promise>>

\* Mutant: a select error is retried after a sleep.
SelectFailed_Retry(w) == Sleep(w, hist[w])

\* if err != nil after Select: reject(err); return
SelectFailed(w) == Reject(w, "SelectError", 0, hist[w])

\* if err != nil after Search: reject(err); return
SearchFailed(w) == Reject(w, "SearchError", 0, hist[w])

\* Mutant: a fetch error rejects the promise.
FetchFailed_Fatal(w) == Reject(w, "FetchError", 0, [hist[w] EXCEPT !.staleOnly = -1])

\* if err != nil after Fetch: time.Sleep(pollInterval); continue
FetchFailed(w) == Sleep(w, [hist[w] EXCEPT !.staleOnly = -1])

\* Mutant: the id is not recorded.
Skip_Forget(set, id) == set

\* skippedIDs[latestID] = true
Skip(set, id) == set \cup {id}

\* Whole seconds that cover T milliseconds.
SecondsCeil(T) == (T + MsPerSecond - 1) \div MsPerSecond

(***************************************************************************)
(* WaitNewEmail: the call, and the goroutine it starts.                    *)
(***************************************************************************)
WaitNewEmail(w, obj, T) ==
  /\ cpc = "idle"
  /\ wpc[w] = "unused"
  /\ \A v \in Watchers : v < w => wpc[v] # "unused"
  /\ now + SecondsCeil(T) <= MaxClock
  /\ timeoutMs' = [timeoutMs EXCEPT ![w] = T]
  /\ headerObj' = [headerObj EXCEPT ![w] = obj]
  /\ IF client = "nil"
       THEN Reject(w, "Client not connected. Call login() first.", 0, hist[w])
       ELSE /\ wpc' = [wpc EXCEPT ![w] = "start"]
            /\ UNCHANGED <<wreq, wakeAt, promise, hist>>
  /\ cret' = [NoRet EXCEPT !.op = "WaitNewEmail"]
  /\ UNCHANGED <<now, chanvars, cerr, connvars, cpc, creq, carg, cids, ctrace, header, startTime, searchSince,
                 iteration, elapsed, skippedIDs, err, ids, latestID, msg, received>>

\* Mutant: the map is kept by the client and shared by its watches.
WStart_Shared(w) ==
  /\ wpc[w] = "start"
  /\ startTime' = [startTime EXCEPT ![w] = now]
  /\ searchSince' = [searchSince EXCEPT ![w] = now - SinceSkew]
  /\ header' = [header EXCEPT ![w] = convertJSObjectToMIMEHeader(headerObj[w])]
  /\ iteration' = [iteration EXCEPT ![w] = 0]
  /\ skippedIDs' = [skippedIDs EXCEPT ![w] = UNION { skippedIDs[v] : v \in Watchers }]
  /\ wpc' = [wpc EXCEPT ![w] = "top"]
  /\ UNCHANGED <<now, connvars, cvars, wreq, timeoutMs, headerObj, elapsed, err, ids,
                 latestID, msg, received, wakeAt, promise, hist>>

\* go func() { startTime := time.Now() ... skippedIDs := make(map[uint32]bool)
WStart(w) ==
  /\ wpc[w] = "start"
  /\ startTime' = [startTime EXCEPT ![w] = now]
  /\ searchSince' = [searchSince EXCEPT ![w] = now - SinceSkew]
  /\ header' = [header EXCEPT ![w] = convertJSObjectToMIMEHeader(headerObj[w])]
  /\ iteration' = [iteration EXCEPT ![w] = 0]
  /\ skippedIDs' = [skippedIDs EXCEPT ![w] = {}]
  /\ wpc' = [wpc EXCEPT ![w] = "top"]
  /\ UNCHANGED <<now, connvars, cvars, wreq, timeoutMs, headerObj, elapsed, err, ids,
                 latestID, msg, received, wakeAt, promise, hist>>

\* The top of the loop: the timeout check, then the select.
WLoopTop(w) ==
  /\ wpc[w] = "top"
  /\ iteration[w] < MaxIterations
  /\ iteration' = [iteration EXCEPT ![w] = @ + 1]
  /\ elapsed' = [elapsed EXCEPT ![w] = now - startTime[w]]
  /\ err' = [err EXCEPT ![w] = ""]
  /\ ids' = [ids EXCEPT ![w] = << >>]
  /\ latestID' = [latestID EXCEPT ![w] = 0]
  /\ msg' = [msg EXCEPT ![w] = NoMsg]
  /\ received' = [received EXCEPT ![w] = "none"]
  /\ IF TimedOut(now - startTime[w], timeoutMs[w])
       THEN Reject(w, "Timeout", timeoutMs[w], [hist[w] EXCEPT !.iterOps = << >>])
       ELSE Call(w, "select", SelectReq(TRUE), [hist[w] EXCEPT !.iterOps = << >>])
  /\ UNCHANGED <<now, connvars, cvars, timeoutMs, headerObj, header, startTime,
                 searchSince, skippedIDs>>

\* Mutant: the lower bound of the search is taken anew in every iteration.
WSelectReturn_SinceNow(w, r) ==
  /\ wpc[w] = "select"
  /\ CanAnswer(r)
  /\ IF r = "err"
       THEN /\ err' = [err EXCEPT ![w] = "select"]
            /\ SelectFailed(w)
            /\ UNCHANGED mailbox
       ELSE /\ mailbox' = "ro"
            /\ Call(w, "search", SearchReq(header[w], now - SinceSkew, ZeroTime),
                    [hist[w] EXCEPT !.searches = @ + 1])
            /\ UNCHANGED err
  /\ UNCHANGED <<now, client, connState, cvars, timeoutMs, headerObj, header, startTime,
                 searchSince, iteration, elapsed, skippedIDs, ids, latestID, msg, received>>

\* e.client.Select("INBOX", true) returns; on success the search is issued.
WSelectReturn(w, r) ==
  /\ wpc[w] = "select"
  /\ CanAnswer(r)
  /\ IF r = "err"
       THEN /\ err' = [err EXCEPT ![w] = "select"]
            /\ SelectFailed(w)
            /\ UNCHANGED mailbox
       ELSE /\ mailbox' = "ro"
            /\ Call(w, "search", SearchReq(header[w], searchSince[w], ZeroTime),
                    [hist[w] EXCEPT !.searches = @ + 1])
            /\ UNCHANGED err
  /\ UNCHANGED <<now, client, connState, cvars, timeoutMs, headerObj, header, startTime,
                 searchSince, iteration, elapsed, skippedIDs, ids, latestID, msg, received>>

\* hist.staleOnly after a search answered s.
StaleAfterSearch(h, s) ==
  IF Len(s) = 1 /\ h.staleOnly \in {0, s[1]} THEN s[1] ELSE -1

\* e.client.Search(criteria) returns; a latest id not yet skipped is fetched.
WSearchReturn(w, r, s) ==
  /\ wpc[w] = "search"
  /\ CanAnswer(r)
  /\ IF r = "err"
       THEN /\ err' = [err EXCEPT ![w] = "search"]
            /\ SearchFailed(w)
            /\ UNCHANGED <<ids, latestID>>
       ELSE /\ ids' = [ids EXCEPT ![w] = s]
            /\ UNCHANGED err
            /\ IF Len(s) > 0
                 THEN /\ latestID' = [latestID EXCEPT ![w] = Latest(s)]
                      /\ IF Latest(s) \in skippedIDs[w]
                           THEN Sleep(w, [hist[w] EXCEPT
                                            !.nonEmpty = TRUE,
                                            !.staleOnly = StaleAfterSearch(hist[w], s)])
                           ELSE Call(w, "fetch", FetchReq(Latest(s), WatchItems),
                                     [hist[w] EXCEPT
                                        !.fetches[Latest(s)] = @ + 1,
                                        !.nonEmpty = TRUE,
                                        !.staleOnly = StaleAfterSearch(hist[w], s)])
                 ELSE /\ Sleep(w, [hist[w] EXCEPT !.staleOnly = -1])
                      /\ UNCHANGED latestID
  /\ UNCHANGED <<now, connvars, cvars, timeoutMs, headerObj, header, startTime,
                 searchSince, iteration, elapsed, skippedIDs, msg, received>>

\* e.client.Fetch returns: the message is received from the channel and judged.
WFetchReturn(w, r, m) ==
  /\ wpc[w] = "fetch"
  /\ CanAnswer(r)
  /\ Answers(m, wreq[w])
  /\ IF r = "err"
       THEN /\ err' = [err EXCEPT ![w] = "fetch"]
            /\ FetchFailed(w)
            /\ UNCHANGED <<msg, received, skippedIDs>>
       ELSE /\ UNCHANGED err
            /\ msg' = [msg EXCEPT ![w] = m]
            /\ received' = [received EXCEPT ![w] = IF m = NoMsg THEN "nil" ELSE "msg"]
            /\ IF m # NoMsg /\ IsNew(m, startTime[w])
                 THEN /\ Resolve(w, messageToMap(m),
                                 [hist[w] EXCEPT !.fetchOk = TRUE, !.staleOnly = -1])
                      /\ UNCHANGED skippedIDs
                 ELSE /\ skippedIDs' = [skippedIDs EXCEPT ![w] = Skip(@, latestID[w])]
                      /\ Sleep(w, [hist[w] EXCEPT
                                     !.fetchOk = TRUE,
                                     !.staleOnly = IF m = NoMsg \/ m.InternalDate = ZeroTime
                                                     THEN -1 ELSE @])
  /\ UNCHANGED <<now, connvars, cvars, timeoutMs, headerObj, header, startTime,
                 searchSince, iteration, elapsed, ids, latestID>>

\* time.Sleep(pollInterval) returns.  A clock at MaxClock stands for every
\* later instant.
WSleepReturn(w) ==
  /\ wpc[w] = "sleep"
  /\ now >= wakeAt[w] \/ now = MaxClock
  /\ wpc' = [wpc EXCEPT ![w] = "top"]
  /\ UNCHANGED <<now, connvars, cvars, wreq, wlocals, promise, hist>>

\* Time passes.  Only goroutines read the clock: time that passes while none
\* runs is not observed.  A goroutine is scheduled for its first step while the
\* clock is early enough for its timeout to fit below MaxClock.
Tick ==
  /\ now < MaxClock
  /\ \E w \in Watchers : wpc[w] \notin {"unused", "done"}
  /\ \A w \in Watchers : wpc[w] = "start" => now + 1 + SecondsCeil(timeoutMs[w]) <= MaxClock
  /\ now' = now + 1
  /\ UNCHANGED <<connvars, cvars, wvars>>

(***************************************************************************)
(* Login and Logout.                                                       *)
(***************************************************************************)
\* client.DialTLS; on success e.client = c and the login command is sent.
Login ==
  /\ cpc = "idle"
  /\ client = "nil"
  /\ ctrace' = << >>
  /\ \E r \in {"ok", "err"} :
       IF r = "err"
         THEN /\ cret' = [NoRet EXCEPT !.op = "Login", !.err = "DialError"]
              /\ UNCHANGED <<connvars, cpc, creq>>
         ELSE /\ client' = "conn"
              /\ connState' = "notauth"
              /\ cpc' = "login"
              /\ creq' = Req("login")
              /\ UNCHANGED <<mailbox, cret>>
  /\ UNCHANGED <<now, chanvars, cerr, carg, cids, wvars>>

\* Login on a client that holds a connection already, while no goroutine of
\* a watch reads e.client: a failed dial returns before the assignment and
\* leaves the old connection in place, a successful one replaces it.
LoginAgain ==
  /\ cpc = "idle"
  /\ client = "conn"
  /\ \A w \in Watchers : wpc[w] \in {"unused", "done"}
  /\ ctrace' = << >>
  /\ \E r \in {"ok", "err"} :
       IF r = "err"
         THEN /\ cret' = [NoRet EXCEPT !.op = "Login", !.err = "DialError"]
              /\ UNCHANGED <<connvars, cpc, creq>>
         ELSE /\ client' = "conn"
              /\ connState' = "notauth"
              /\ mailbox' = "none"
              /\ cpc' = "login"
              /\ creq' = Req("login")
              /\ UNCHANGED cret
  /\ UNCHANGED <<now, chanvars, cerr, carg, cids, wvars>>

\* e.client.Login(e.Email, e.Password) returns.
LoginReturn ==
  /\ cpc = "login"
  /\ cpc' = "idle"
  /\ creq' = NoReq
  /\ \E r \in {"ok", "err"} :
       IF r = "err"
         THEN /\ cret' = [NoRet EXCEPT !.op = "Login", !.err = "AuthError"]
              /\ UNCHANGED connState
         ELSE /\ cret' = [NoRet EXCEPT !.op = "Login"]
              /\ connState' = "auth"
  /\ UNCHANGED <<now, chanvars, cerr, client, mailbox, carg, cids, ctrace, wvars>>

\* Logout: e.client.Logout() if there is a client.
Logout ==
  /\ cpc = "idle"
  /\ ctrace' = IF client = "nil" THEN << >> ELSE << Req("logout") >>
  /\ IF client = "nil"
       THEN /\ cret' = [NoRet EXCEPT !.op = "Logout"]
            /\ UNCHANGED <<cpc, creq>>
       ELSE /\ cpc' = "logout"
            /\ creq' = Req("logout")
            /\ UNCHANGED cret
  /\ UNCHANGED <<now, chanvars, cerr, connvars, carg, cids, wvars>>

\* Mutant: Logout forgets the connection.
LogoutReturn_Clear ==
  /\ cpc = "logout"
  /\ cpc' = "idle"
  /\ creq' = NoReq
  /\ client' = "nil"
  /\ connState' = "logout"
  /\ cret' = [NoRet EXCEPT !.op = "Logout"]
  /\ UNCHANGED <<now, chanvars, cerr, mailbox, carg, cids, ctrace, wvars>>

\* e.client.Logout() returns; e.client is left as it is.
LogoutReturn ==
  /\ cpc = "logout"
  /\ cpc' = "idle"
  /\ creq' = NoReq
  /\ connState' = "logout"
  /\ cret' = [NoRet EXCEPT !.op = "Logout"]
  /\ UNCHANGED <<now, chanvars, cerr, client, mailbox, carg, cids, ctrace, wvars>>

\* The caller's call returns (v, e).
Return(op, e, n, v) ==
  /\ cpc' = "idle"
  /\ creq' = NoReq
  /\ cret' = [op |-> op, err |-> e, count |-> n, value |-> v]

\* The caller issues request q and waits for it at pc.
Issue(pc, q) ==
  /\ cpc' = pc
  /\ creq' = q
  /\ ctrace' = Append(ctrace, q)
  /\ UNCHANGED cret

(***************************************************************************)
(* EmailClient.Read                                                        *)
(***************************************************************************)
\* Mutant: Read without the test of e.client.
Read_NoCheck(obj) ==
  /\ cpc = "idle"
  /\ carg' = [NoArg EXCEPT !.headerObj = obj]
  /\ cids' = << >>
  /\ cerr' = ""
  /\ cpc' = "read_select"
  /\ creq' = SelectReq(TRUE)
  /\ ctrace' = << SelectReq(TRUE) >>
  /\ UNCHANGED cret
  /\ UNCHANGED <<now, chanvars, connvars, wvars>>

Read(obj) ==
  /\ cpc = "idle"
  /\ carg' = [NoArg EXCEPT !.headerObj = obj]
  /\ cids' = << >>
  /\ cerr' = ""
  /\ IF client = "nil"
       THEN /\ Return("Read", "Client not connected. Call login() first.", 0, NoValue)
            /\ ctrace' = << >>
       ELSE /\ cpc' = "read_select"
            /\ creq' = SelectReq(TRUE)
            /\ ctrace' = << SelectReq(TRUE) >>
            /\ UNCHANGED cret
  /\ UNCHANGED <<now, chanvars, connvars, wvars>>

ReadSelectReturn(r) ==
  /\ cpc = "read_select"
  /\ CanAnswer(r)
  /\ cerr' = IF r = "err" THEN "select" ELSE ""
  /\ IF r = "err"
       THEN /\ Return("Read", "SelectError", 0, NoValue)
            /\ UNCHANGED <<mailbox, ctrace>>
       ELSE /\ mailbox' = "ro"
            /\ Issue("read_search",
                     SearchReq(convertJSObjectToMIMEHeader(carg.headerObj), ZeroTime, ZeroTime))
  /\ UNCHANGED <<now, chanvars, client, connState, carg, cids, wvars>>

\* Mutant: the first id of the answer is fetched.
ReadSearchReturn_First(r, s) ==
  /\ cpc = "read_search"
  /\ CanAnswer(r)
  /\ cerr' = IF r = "err" THEN "search" ELSE ""
  /\ IF r = "err"
       THEN /\ Return("Read", "SearchError", 0, NoValue)
            /\ UNCHANGED <<cids, ctrace>>
       ELSE /\ cids' = s
            /\ IF Len(s) = 0
                 THEN /\ Return("Read", "No messages found", 0, NoValue)
                      /\ UNCHANGED ctrace
                 ELSE Issue("read_fetch", FetchReq(Head(s), ReadItems))
  /\ UNCHANGED <<now, chanvars, connvars, carg, wvars>>

ReadSearchReturn(r, s) ==
  /\ cpc = "read_search"
  /\ CanAnswer(r)
  /\ cerr' = IF r = "err" THEN "search" ELSE ""
  /\ IF r = "err"
       THEN /\ Return("Read", "SearchError", 0, NoValue)
            /\ UNCHANGED <<cids, ctrace>>
       ELSE /\ cids' = s
            /\ IF Len(s) = 0
                 THEN /\ Return("Read", "No messages found", 0, NoValue)
                      /\ UNCHANGED ctrace
                 ELSE Issue("read_fetch", FetchReq(Latest(s), ReadItems))
  /\ UNCHANGED <<now, chanvars, connvars, carg, wvars>>

ReadFetchReturn(r, m) ==
  /\ cpc = "read_fetch"
  /\ CanAnswer(r)
  /\ cerr' = IF r = "err" THEN "fetch" ELSE ""
  /\ Answers(m, creq)
  /\ IF r = "err"
       THEN Return("Read", "FetchError", 0, NoValue)
       ELSE IF m = NoMsg
              THEN Return("Read", "No message", 0, NoValue)
              ELSE Return("Read", "", 0, messageToMap(m))
  /\ UNCHANGED <<now, chanvars, connvars, carg, cids, ctrace, wvars>>

(***************************************************************************)
(* EmailClient.DeleteEmailsOlderThan                                       *)
(***************************************************************************)
DeleteEmailsOlderThan(beforeTimestampUnix) ==
  /\ cpc = "idle"
  /\ carg' = [NoArg EXCEPT !.before = beforeTimestampUnix]
  /\ cids' = << >>
  /\ cerr' = ""
  /\ IF client = "nil"
       THEN /\ Return("DeleteEmailsOlderThan", "client not connected. Call login() first", 0, NoValue)
            /\ ctrace' = << >>
       ELSE /\ cpc' = "del_select"
            /\ creq' = SelectReq(FALSE)
            /\ ctrace' = << SelectReq(FALSE) >>
            /\ UNCHANGED cret
  /\ UNCHANGED <<now, chanvars, connvars, wvars>>

DeleteSelectReturn(r) ==
  /\ cpc = "del_select"
  /\ CanAnswer(r)
  /\ cerr' = IF r = "err" THEN "select" ELSE ""
  /\ IF r = "err"
       THEN /\ Return("DeleteEmailsOlderThan", "error selecting INBOX", 0, NoValue)
            /\ UNCHANGED <<mailbox, ctrace>>
       ELSE /\ mailbox' = "rw"
            /\ Issue("del_search", SearchReq({}, ZeroTime, carg.before))
  /\ UNCHANGED <<now, chanvars, client, connState, carg, cids, wvars>>

DeleteSearchReturn(r, s) ==
  /\ cpc = "del_search"
  /\ CanAnswer(r)
  /\ cerr' = IF r = "err" THEN "search" ELSE ""
  /\ IF r = "err"
       THEN /\ Return("DeleteEmailsOlderThan", "error searching emails", 0, NoValue)
            /\ UNCHANGED <<cids, ctrace>>
       ELSE /\ cids' = s
            /\ IF Len(s) = 0
                 THEN /\ Return("DeleteEmailsOlderThan", "", 0, NoValue)
                      /\ UNCHANGED ctrace
                 ELSE Issue("del_store", StoreReq(Range(s)))
  /\ UNCHANGED <<now, chanvars, connvars, carg, wvars>>

\* Mutant: the call returns after the store, without expunge.
DeleteStoreReturn_NoExpunge(r) ==
  /\ cpc = "del_store"
  /\ CanAnswer(r)
  /\ cerr' = IF r = "err" THEN "store" ELSE ""
  /\ IF r = "err"
       THEN Return("DeleteEmailsOlderThan", "error marking emails as deleted", 0, NoValue)
       ELSE Return("DeleteEmailsOlderThan", "", Len(cids), NoValue)
  /\ UNCHANGED <<now, chanvars, connvars, carg, cids, ctrace, wvars>>

\* Mutant: expunge is called whatever the store returned.
DeleteStoreReturn_ExpungeAnyway(r) ==
  /\ cpc = "del_store"
  /\ CanAnswer(r)
  /\ cerr' = IF r = "err" THEN "store" ELSE ""
  /\ Issue("del_expunge", Req("expunge"))
  /\ UNCHANGED <<now, chanvars, connvars, carg, cids, wvars>>

DeleteStoreReturn(r) ==
  /\ cpc = "del_store"
  /\ CanAnswer(r)
  /\ cerr' = IF r = "err" THEN "store" ELSE ""
  /\ IF r = "err"
       THEN /\ Return("DeleteEmailsOlderThan", "error marking emails as deleted", 0, NoValue)
            /\ UNCHANGED ctrace
       ELSE Issue("del_expunge", Req("expunge"))
  /\ UNCHANGED <<now, chanvars, connvars, carg, cids, wvars>>

\* Mutant: an expunge failure is reported with the store's message.
DeleteExpungeReturn_MarkError(r) ==
  /\ cpc = "del_expunge"
  /\ CanAnswer(r)
  /\ cerr' = IF r = "err" THEN "expunge" ELSE ""
  /\ IF r = "err"
       THEN Return("DeleteEmailsOlderThan", "error marking emails as deleted", 0, NoValue)
       ELSE Return("DeleteEmailsOlderThan", "", Len(cids), NoValue)
  /\ UNCHANGED <<now, chanvars, connvars, carg, cids, ctrace, wvars>>

DeleteExpungeReturn(r) ==
  /\ cpc = "del_expunge"
  /\ CanAnswer(r)
  /\ cerr' = IF r = "err" THEN "expunge" ELSE ""
  /\ IF r = "err"
       THEN Return("DeleteEmailsOlderThan", "error expunging emails", 0, NoValue)
       ELSE Return("DeleteEmailsOlderThan", "", Len(cids), NoValue)
  /\ UNCHANGED <<now, chanvars, connvars, carg, cids, ctrace, wvars>>

(***************************************************************************)
(* The module-level Read: a one-shot read on a connection of its own.      *)
(* Fetch sends every message the server answers to the channel it was      *)
(* given, one after the other, and returns when the command has ended; the *)
(* channel is closed by then.                                              *)
(***************************************************************************)
ModulePcs == {"mod_login", "mod_select", "mod_search", "mod_fetch"}

\* return v, e, after which the deferred c.Logout() runs.
ModuleReturn(e, v) ==
  /\ Return("ModuleRead", e, 0, v)
  /\ ctrace' = Append(ctrace, Req("logout"))

\* client.DialTLS, defer c.Logout(), and the login command.
ModuleRead(obj) ==
  /\ cpc = "idle"
  /\ carg' = [NoArg EXCEPT !.headerObj = obj]
  /\ cids' = << >>
  /\ messages' = NoChan
  /\ unsent' = << >>
  /\ \E r \in Results :
       /\ cerr' = IF r = "err" THEN "dial" ELSE ""
       /\ IF r = "err"
            THEN /\ Return("ModuleRead", "DialError", 0, NoValue)
                 /\ ctrace' = << >>
            ELSE /\ cpc' = "mod_login"
                 /\ creq' = Req("login")
                 /\ ctrace' = << Req("login") >>
                 /\ UNCHANGED cret
  /\ UNCHANGED <<now, connvars, wvars>>

ModuleLoginReturn(r) ==
  /\ cpc = "mod_login"
  /\ cerr' = IF r = "err" THEN "login" ELSE ""
  /\ IF r = "err"
       THEN ModuleReturn("AuthError", NoValue)
       ELSE Issue("mod_select", SelectReq(TRUE))
  /\ UNCHANGED <<now, chanvars, connvars, carg, cids, wvars>>

ModuleSelectReturn(r) ==
  /\ cpc = "mod_select"
  /\ cerr' = IF r = "err" THEN "select" ELSE ""
  /\ IF r = "err"
       THEN ModuleReturn("SelectError", NoValue)
       ELSE Issue("mod_search",
                  SearchReq(convertJSObjectToMIMEHeader(carg.headerObj), ZeroTime, ZeroTime))
  /\ UNCHANGED <<now, chanvars, connvars, carg, cids, wvars>>

\* c.Search returns; every id it answered goes into the seqSet of one fetch.
\* answer: the messages the server sends for that fetch, in its order.
ModuleSearchReturn(r, s, answer) ==
  /\ cpc = "mod_search"
  /\ Range(answer) \subseteq Range(s)
  /\ cerr' = IF r = "err" THEN "search" ELSE ""
  /\ IF r = "err"
       THEN /\ ModuleReturn("SearchError", NoValue)
            /\ UNCHANGED <<cids, chanvars>>
       ELSE /\ cids' = s
            /\ IF Len(s) = 0
                 THEN /\ ModuleReturn("No messages found", NoValue)
                      /\ UNCHANGED chanvars
                 ELSE /\ Issue("mod_fetch",
                               [Req("fetch") EXCEPT !.seqSet = Range(s), !.items = {"BODY[TEXT]"}])
                      /\ messages' = NoChan
                      /\ unsent' = answer
  /\ UNCHANGED <<now, connvars, carg, wvars>>

\* Inside c.Fetch: the next message is sent to the channel, which blocks
\* while the channel is full.
ModuleFetchSend ==
  /\ cpc = "mod_fetch"
  /\ unsent # << >>
  /\ Len(messages.buf) < ChanCap
  /\ messages' = [messages EXCEPT !.buf = Append(@, Head(unsent))]
  /\ unsent' = Tail(unsent)
  /\ UNCHANGED <<now, connvars, cpc, creq, carg, cids, cret, ctrace, cerr, wvars>>

\* c.Fetch returns, msg := <-messages, and the body is decoded.  body: what
\* GetBody and ReadAll give.
ModuleFetchReturn(r, body) ==
  /\ cpc = "mod_fetch"
  /\ unsent = << >>
  /\ cerr' = IF r = "err" THEN "fetch" ELSE ""
  /\ unsent' = unsent
  /\ IF r = "err"
       THEN /\ ModuleReturn("FetchError", NoValue)
            /\ messages' = [messages EXCEPT !.closed = TRUE]
       ELSE /\ messages' = [buf |-> IF messages.buf = << >> THEN << >> ELSE Tail(messages.buf),
                            closed |-> TRUE]
            /\ IF messages.buf = << >>
                 THEN ModuleReturn("No message", NoValue)
                 ELSE CASE body = "nil" -> ModuleReturn("Could not get message body", NoValue)
                        [] body = "bad" -> ModuleReturn("DecodeError", NoValue)
                        [] OTHER -> ModuleReturn("", <<"body", Head(messages.buf)>>)
  /\ UNCHANGED <<now, connvars, carg, cids, wvars>>

\* One step of the module-level Read.
ModuleStep ==
  \/ \E r \in Results : ModuleLoginReturn(r)
  \/ \E r \in Results : ModuleSelectReturn(r)
  \/ \E r \in Results, s \in SearchResults, answer \in SearchResults :
       ModuleSearchReturn(r, s, answer)
  \/ ModuleFetchSend
  \/ \E r \in Results, body \in {"nil", "bad", "text"} : ModuleFetchReturn(r, body)

\* One step of a one-shot call of the caller, who passes filters from Objs
\* and cutoffs from Cutoffs, in an environment that answers searches from S.
CallerStep(S, Objs, Cutoffs) ==
  \/ \E obj \in Objs : Read(obj)
  \/ \E r \in Results : ReadSelectReturn(r)
  \/ \E r \in Results, s \in S : ReadSearchReturn(r, s)
  \/ \E r \in Results, m \in Messages({ZeroTime}) : ReadFetchReturn(r, m)
  \/ \E ts \in Cutoffs : DeleteEmailsOlderThan(ts)
  \/ \E r \in Results : DeleteSelectReturn(r)
  \/ \E r \in Results, s \in S : DeleteSearchReturn(r, s)
  \/ \E r \in Results : DeleteStoreReturn(r)
  \/ \E r \in Results : DeleteExpungeReturn(r)
  \/ Logout
  \/ LogoutReturn

\* One step of goroutine w in an environment that answers searches from S
\* and fetches with dates from D.
WatcherStep(w, S, D) ==
  \/ WStart(w)
  \/ WLoopTop(w)
  \/ \E r \in Results : WSelectReturn(w, r)
  \/ \E r \in Results, s \in S : WSearchReturn(w, r, s)
  \/ \E r \in Results, m \in Messages(D) : WFetchReturn(w, r, m)
  \/ WSleepReturn(w)

(***************************************************************************)
(* Spec: one watch at a time on a client, in the full environment.         *)
(***************************************************************************)
Next ==
  \/ Tick
  \/ Login
  \/ LoginReturn
  \/ \E obj \in HeaderObjs, T \in Timeouts : WaitNewEmail(1, obj, T)
  \/ WatcherStep(1, SearchResults, Dates)

Spec == Init /\ [][Next]_vars

(***************************************************************************)
(* CallSpec: the one-shot calls of a caller that starts no watch.          *)
(***************************************************************************)
CallNext ==
  \/ Login
  \/ LoginReturn
  \/ CallerStep(SearchResults, HeaderObjs, BeforeTimestamps)

CallSpec == Init /\ [][CallNext]_vars

(***************************************************************************)
(* ConcSpec: the caller's calls while a watch runs on the same client, in  *)
(* a smaller environment.                                                  *)
(***************************************************************************)
ConcSearchResults == { << >>, << 1 >> }
ConcDates == { ZeroTime, MaxClock }
ConcTimeouts == { 1500 }
ConcObjs == { [k \in {"Subject"} |-> <<"string", "hello">>] }
ConcCutoffs == { 3 }

ConcNext ==
  \/ Tick
  \/ Login
  \/ LoginReturn
  \/ CallerStep(ConcSearchResults, ConcObjs, ConcCutoffs)
  \/ \E obj \in ConcObjs, T \in ConcTimeouts : WaitNewEmail(1, obj, T)
  \/ WatcherStep(1, ConcSearchResults, ConcDates)

ConcSpec == Init /\ [][ConcNext]_vars

(***************************************************************************)
(* TwoSpec: several watches on one client, one after the other or at the   *)
(* same time, in a smaller environment.                                    *)
(***************************************************************************)
TwoSearchResults == { << 1 >>, << 2 >> }
TwoDates == { ZeroTime, MaxClock }
\* The first watch of the client is a long one, the later ones are short.
TwoTimeouts(w) == IF w = 1 THEN { MaxTimeoutMs } ELSE ConcTimeouts

TwoNext ==
  \/ Tick
  \/ Login
  \/ LoginReturn
  \/ \E w \in Watchers : \E obj \in ConcObjs, T \in TwoTimeouts(w) : WaitNewEmail(w, obj, T)
  \/ \E w \in Watchers : WatcherStep(w, TwoSearchResults, TwoDates)

TwoSpec == Init /\ [][TwoNext]_vars

(***************************************************************************)
(* ConvSpec: convertJSObjectToMIMEHeader applied to the objects a caller   *)
(* can pass.                                                               *)
(***************************************************************************)
ConvItems == { <<"string", "a">>, <<"string", "b">>, <<"other", 7>> }
ConvValues ==
  { <<"string", "a">>, <<"other", 7>> }
    \cup { <<"list", items>> : items \in SeqsOver(ConvItems, MaxListLen) }
    \cup { <<"strings", seq>> : seq \in SeqsOver({"a", "b"}, MaxListLen) }
ConvObjs ==
  UNION { [K -> ConvValues] : K \in { {}, {"Subject"}, {"Subject", "X-Test"} } }

ConvInit ==
  /\ InitButArg
  /\ carg \in { [NoArg EXCEPT !.headerObj = obj] : obj \in ConvObjs }

\* header := convertJSObjectToMIMEHeader(headerObj)
Convert ==
  /\ cpc = "idle"
  /\ cret.op = "none"
  /\ cret' = [NoRet EXCEPT !.op = "convertJSObjectToMIMEHeader",
                           !.value = convertJSObjectToMIMEHeader(carg.headerObj)]
  /\ UNCHANGED <<now, connvars, cpc, creq, carg, cids, ctrace, cerr, chanvars, wvars>>

ConvSpec == ConvInit /\ [][Convert]_vars

(***************************************************************************)
(* HeaderSpec: messageToMap applied to messages with the header sections   *)
(* a server can send.                                                      *)
(***************************************************************************)
HeaderLines ==
  { Field("X-Test", "a"), Field("x-test", "b"), Field("Subject", "s"),
    Continuation("c"), BlankLine, OtherLine }
HeaderBlocks == SeqsOver(HeaderLines, MaxHeaderLines)

HeaderInit ==
  /\ InitButArg
  /\ carg \in { [NoArg EXCEPT !.msg.Header = b] : b \in HeaderBlocks }

\* result["headers"] = headers
DecodeHeaders ==
  /\ cpc = "idle"
  /\ cret.op = "none"
  /\ cret' = [NoRet EXCEPT !.op = "messageToMap headers", !.value = headers(carg.msg.Header)]
  /\ UNCHANGED <<now, connvars, cpc, creq, carg, cids, ctrace, cerr, chanvars, wvars>>

HeaderSpec == HeaderInit /\ [][DecodeHeaders]_vars

(***************************************************************************)
(* FromSpec: messageToMap applied to messages with the From lists an       *)
(* envelope can hold.                                                      *)
(***************************************************************************)
Addresses == { Address(mb, h) : mb \in {"", "amy", "bob"}, h \in {"", "x.org"} }
FromLists == SeqsOver(Addresses, MaxAddrs)

FromInit ==
  /\ InitButArg
  /\ carg \in { [NoArg EXCEPT !.msg.From = f] : f \in FromLists }

\* result["from"] = ...
DecodeFrom ==
  /\ cpc = "idle"
  /\ cret.op = "none"
  /\ cret' = [NoRet EXCEPT !.op = "messageToMap from", !.value = from(carg.msg.From)]
  /\ UNCHANGED <<now, connvars, cpc, creq, carg, cids, ctrace, cerr, chanvars, wvars>>

FromSpec == FromInit /\ [][DecodeFrom]_vars

(***************************************************************************)
(* ModuleSpec: calls of the module-level Read.                             *)
(***************************************************************************)
ModuleNext ==
  \/ \E obj \in HeaderObjs : ModuleRead(obj)
  \/ ModuleStep

ModuleSpec == Init /\ [][ModuleNext]_vars

(***************************************************************************)
(* ConnSpec: ConcSpec with a caller who may log in again.                  *)
(***************************************************************************)
ConnNext ==
  \/ ConcNext
  \/ LoginAgain

ConnSpec == Init /\ [][ConnNext]_vars

(***************************************************************************)
(* ReadSpec: calls of Read while a watch runs on the same client, in a     *)
(* smaller environment.                                                    *)
(***************************************************************************)
ReadTimeouts == { MaxTimeoutMs }

ReadNext ==
  \/ Tick
  \/ Login
  \/ LoginReturn
  \/ \E obj \in HeaderObjs, T \in ReadTimeouts : WaitNewEmail(1, obj, T)
  \/ WatcherStep(1, ConcSearchResults, ConcDates)
  \/ \E obj \in ConcObjs : Read(obj)
  \/ \E r \in Results : ReadSelectReturn(r)
  \/ \E r \in Results, s \in ConcSearchResults : ReadSearchReturn(r, s)
  \/ \E r \in Results, m \in Messages({ZeroTime}) : ReadFetchReturn(r, m)

ReadSpec == Init /\ [][ReadNext]_vars

(***************************************************************************)
(* FairSpec: Spec with a goroutine that is scheduled, transport calls that *)
(* return and a clock that advances.                                       *)
(***************************************************************************)
FairSpec ==
  /\ Spec
  /\ WF_vars(Tick)
  /\ WF_vars(WatcherStep(1, SearchResults, Dates))

(***************************************************************************)
(* Properties.                                                             *)
(***************************************************************************)
Started(w) == iteration[w] > 0
Settled(w) == promise[w].state # "pending"
TransportPcs == {"select", "search", "fetch"}
Ops(trace) == [i \in DOMAIN trace |-> trace[i].op]

\* C1: the promise of every WaitNewEmail call is settled exactly once, and
\* once it is settled the goroutine issues no transport request and runs no
\* further iteration.
C1_SettledOnce ==
  /\ [](\A w \in Watchers :
          /\ hist[w].settles <= 1
          /\ Settled(w) <=> hist[w].settles = 1
          /\ Settled(w) <=> wpc[w] = "done"
          /\ Settled(w) => wreq[w] = NoReq)
  /\ [][\A w \in Watchers :
          Settled(w) => /\ promise'[w] = promise[w]
                        /\ wpc'[w] = "done"
                        /\ wreq'[w] = NoReq
                        /\ iteration'[w] = iteration[w]
                        /\ hist'[w] = hist[w]]_vars

C1_Witness ==
  /\ promise[1].state = "resolved"
  /\ iteration[1] = 2
  /\ hist[1].settles = 1

\* C2: a timeout rejection is made at the top of an iteration whose elapsed
\* time is at least the timeout, it carries the timeout that was asked for, and
\* a watch all of whose iterations searched and found no id ends in no other
\* way.
C2_TimeoutAtOrAfterT ==
  \A w \in Watchers :
    /\ promise[w].err = "Timeout" =>
         /\ promise[w].state = "rejected"
         /\ elapsed[w] * 1000 >= timeoutMs[w]
         /\ elapsed[w] * 1000 >= timeoutMs[w] - 2000
         /\ promise[w].ms = timeoutMs[w]
         /\ hist[w].iterOps = << >>
         /\ now - startTime[w] >= elapsed[w]
    /\ ( /\ wpc[w] = "done" /\ Started(w)
         /\ ~hist[w].nonEmpty
         /\ promise[w].err \notin {"SelectError", "SearchError"} ) =>
         /\ promise[w].state = "rejected"
         /\ promise[w].err = "Timeout"
         /\ elapsed[w] * 1000 >= timeoutMs[w]

C2_Witness ==
  /\ promise[1].err = "Timeout"
  /\ timeoutMs[1] = MaxTimeoutMs
  /\ ~hist[1].nonEmpty
  /\ hist[1].searches >= 2

\* C3: the promise is resolved only with the message fetched in the current
\* iteration, whose internal date is set and strictly after startTime; a
\* message that is nil, undated or not after startTime leaves the promise
\* pending, puts its id in skippedIDs and the goroutine goes on polling.
C3_ResolveOnlyNew ==
  \A w \in Watchers :
    /\ promise[w].state = "resolved" =>
         /\ received[w] = "msg"
         /\ msg[w].InternalDate # 0
         /\ msg[w].InternalDate > startTime[w]
         /\ msg[w].SeqNum = latestID[w]
         /\ hist[w].iterOps[Len(hist[w].iterOps)].op = "fetch"
         /\ hist[w].iterOps[Len(hist[w].iterOps)].seqSet = {latestID[w]}
         /\ promise[w].value.uid = msg[w].SeqNum
         /\ promise[w].value.internalDateTimestamp = msg[w].InternalDate
    /\ ( \/ received[w] = "nil"
         \/ received[w] = "msg" /\ msg[w].InternalDate = 0
         \/ received[w] = "msg" /\ msg[w].InternalDate <= startTime[w] ) =>
         /\ promise[w].state = "pending"
         /\ latestID[w] \in skippedIDs[w]
         /\ wpc[w] \in {"sleep", "top"}

C3_Witness ==
  /\ received[1] = "msg"
  /\ msg[1].InternalDate = startTime[1]
  /\ latestID[1] \in skippedIDs[1]
  /\ wpc[1] = "sleep"

\* C4: when the first search answers one id and its fetch gives a message
\* dated after startTime, the promise is resolved in that first iteration,
\* after one search and no sleep, with the record of that message.
C4_ResolveFirstIteration ==
  \A w \in Watchers :
    ( /\ iteration[w] = 1
      /\ Len(ids[w]) = 1
      /\ received[w] = "msg"
      /\ msg[w].InternalDate > startTime[w] ) =>
      /\ promise[w].state = "resolved"
      /\ wpc[w] = "done"
      /\ hist[w].sleeps = 0
      /\ hist[w].searches = 1
      /\ promise[w].value.uid = ids[w][1]
      /\ promise[w].value.internalDateTimestamp = msg[w].InternalDate
      /\ "uid" \in promise[w].value.keys

C4_Witness ==
  /\ iteration[1] = 1
  /\ Len(ids[1]) = 1
  /\ promise[1].state = "resolved"
  /\ promise[1].value.uid = ids[1][1]

\* C5: an id in skippedIDs is never fetched again: when it is the last id of
\* a search answer the goroutine sleeps without a fetch; and an id that every
\* search answers, with a date that is not new, is fetched at most once.
C5_SkippedNeverRefetched ==
  /\ [](\A w \in Watchers :
          hist[w].staleOnly > 0 => hist[w].fetches[hist[w].staleOnly] <= 1)
  /\ [][\A w \in Watchers :
          /\ \A i \in skippedIDs[w] : hist'[w].fetches[i] = hist[w].fetches[i]
          /\ (wpc[w] # "fetch" /\ wpc'[w] = "fetch") =>
               /\ latestID'[w] \notin skippedIDs[w]
               /\ wreq'[w].seqSet = {latestID'[w]}
          /\ ( /\ wpc[w] = "search" /\ wpc'[w] # "search"
               /\ Len(ids'[w]) > 0
               /\ ids'[w][Len(ids'[w])] \in skippedIDs[w] ) =>
               /\ wpc'[w] = "sleep"
               /\ wreq'[w] = NoReq]_vars

C5_Witness ==
  /\ hist[1].staleOnly > 0
  /\ hist[1].fetches[hist[1].staleOnly] = 1
  /\ hist[1].searches >= 2
  /\ promise[1].err = "Timeout"

\* C6: a select or search error rejects the promise with that error in the
\* same iteration: no sleep, no retry, no search after a failed select and no
\* fetch after a failed search.
C6_SelectSearchFatal ==
  \A w \in Watchers :
    /\ err[w] = "select" =>
         /\ wpc[w] = "done"
         /\ promise[w].state = "rejected"
         /\ promise[w].err = "SelectError"
         /\ Ops(hist[w].iterOps) = << "select" >>
         /\ hist[w].sleeps = iteration[w] - 1
    /\ err[w] = "search" =>
         /\ wpc[w] = "done"
         /\ promise[w].state = "rejected"
         /\ promise[w].err = "SearchError"
         /\ Ops(hist[w].iterOps) = << "select", "search" >>
         /\ hist[w].sleeps = iteration[w] - 1

C6_Witness ==
  /\ err[1] = "search"
  /\ iteration[1] = 2
  /\ promise[1].err = "SearchError"

\* C7: a fetch error is not reported and does not put the id in skippedIDs:
\* the goroutine sleeps and polls again, so the id can be fetched again; a
\* watch none of whose fetches succeeded is never resolved, and ends in the
\* timeout unless a select or a search failed.
C7_FetchErrorSoft ==
  \A w \in Watchers :
    /\ err[w] = "fetch" =>
         /\ wpc[w] \in {"sleep", "top"}
         /\ promise[w].state = "pending"
         /\ latestID[w] \notin skippedIDs[w]
         /\ received[w] = "none"
    /\ promise[w].err \in {"", "Timeout", "SelectError", "SearchError",
                           "Client not connected. Call login() first."}
    /\ (wpc[w] = "done" /\ Started(w) /\ ~hist[w].fetchOk) =>
         /\ promise[w].state = "rejected"
         /\ promise[w].err \in {"Timeout", "SelectError", "SearchError"}

C7_Witness ==
  /\ err[1] = "fetch"
  /\ wpc[1] = "sleep"
  /\ hist[1].fetches[latestID[1]] = 2

\* C8: every watch that was started ends (resolved, timed out or failed), and
\* every iteration that does not end the watch ends in one sleep of one poll
\* interval.
C8_WatchTerminates ==
  /\ \A w \in Watchers : (wpc[w] = "start") ~> (wpc[w] = "done")
  /\ [](\A w \in Watchers :
          /\ wpc[w] \in {"sleep", "top"} => hist[w].sleeps = iteration[w]
          /\ wpc[w] \in TransportPcs => hist[w].sleeps = iteration[w] - 1
          /\ (wpc[w] = "done" /\ Started(w)) => hist[w].sleeps = iteration[w] - 1)
  /\ [][\A w \in Watchers :
          (wpc[w] # "sleep" /\ wpc'[w] = "sleep") => wakeAt'[w] = now + 2]_vars

C8_Witness ==
  /\ wpc[1] = "done"
  /\ promise[1].err = "Timeout"
  /\ hist[1].fetchOk
  /\ hist[1].sleeps = 2

\* Who has a transport call in flight on the client's connection: goroutines,
\* and 0 for the caller.
InFlight ==
  { w \in Watchers : wpc[w] \in TransportPcs } \cup (IF cpc # "idle" THEN {0} ELSE {})

\* C9: at no time are two transport calls in flight on the connection.
C9_Serialized == Cardinality(InFlight) <= 1

\* C10: a DeleteEmailsOlderThan whose select and search succeed issues, for a
\* search answer with ids, one store of the deleted flag on all of them and
\* then one expunge, and returns their number; for an empty answer it returns
\* 0 and issues neither.
DeleteReturned == cpc = "idle" /\ cret.op = "DeleteEmailsOlderThan"

C10_DeleteStoreThenExpunge ==
  /\ cpc = "del_store" =>
       /\ Ops(ctrace) = << "select", "search", "store" >>
       /\ cids # << >>
       /\ creq = ctrace[3]
  /\ cpc = "del_expunge" =>
       /\ Ops(ctrace) = << "select", "search", "store", "expunge" >>
       /\ cids # << >>
  /\ (DeleteReturned /\ cret.err = "" /\ cids # << >>) =>
       /\ Ops(ctrace) = << "select", "search", "store", "expunge" >>
       /\ ctrace[1].readOnly = FALSE
       /\ ctrace[3].seqSet = { cids[i] : i \in DOMAIN cids }
       /\ ctrace[3].flags = {"\\Deleted"}
       /\ ctrace[3].items = {"+FLAGS.SILENT"}
       /\ cret.count = Len(cids)
  /\ (DeleteReturned /\ cret.err = "" /\ cids = << >>) =>
       /\ Ops(ctrace) = << "select", "search" >>
       /\ cret.count = 0
  /\ (DeleteReturned /\ Len(ctrace) >= 2 /\ cids # << >>) =>
       /\ Len(ctrace) >= 3
       /\ ctrace[3].op = "store"

C10_Witness ==
  /\ DeleteReturned
  /\ cret.err = ""
  /\ cret.count = 2
  /\ Len(ctrace) = 4

\* C11: when the store of DeleteEmailsOlderThan fails the call returns at
\* once: expunge is not issued, the error names the marking and the count is
\* 0; and a call that returned after its store without an expunge returned
\* that error.
C11_StoreFailureNoExpunge ==
  /\ [](DeleteReturned =>
          /\ cret.err = "error marking emails as deleted" =>
               /\ Ops(ctrace) = << "select", "search", "store" >>
               /\ cret.count = 0
          /\ (ctrace # << >> /\ ctrace[Len(ctrace)].op = "store") =>
               /\ cret.err = "error marking emails as deleted"
               /\ cret.count = 0)
  /\ [](cpc = "del_expunge" => cerr = "")
  /\ [][(cpc = "del_store" /\ cerr' = "store") => (cpc' = "idle" /\ ctrace' = ctrace)]_vars

C11_Witness ==
  /\ DeleteReturned
  /\ cret.err = "error marking emails as deleted"
  /\ Len(cids) = 2
  /\ Len(ctrace) = 3

\* The requests a DeleteEmailsOlderThan that failed with error e has issued.
PhaseOps(e) ==
  CASE e = "client not connected. Call login() first" -> << >>
    [] e = "error selecting INBOX"                    -> << "select" >>
    [] e = "error searching emails"                   -> << "select", "search" >>
    [] e = "error marking emails as deleted"          -> << "select", "search", "store" >>
    [] e = "error expunging emails"                   -> << "select", "search", "store", "expunge" >>

\* C12: every failure of DeleteEmailsOlderThan carries an error that names the
\* phase that failed: the requests issued are exactly those up to that phase, so
\* no store was issued when the select or the search failed, and nothing follows
\* a failed expunge.
C12_FailureNamesPhase ==
  (DeleteReturned /\ cret.err # "") =>
    /\ cret.err \in { "client not connected. Call login() first", "error selecting INBOX",
                      "error searching emails", "error marking emails as deleted",
                      "error expunging emails" }
    /\ Ops(ctrace) = PhaseOps(cret.err)
    /\ cret.count = 0
    /\ cret.err \in {"error selecting INBOX", "error searching emails"} =>
         \A i \in DOMAIN ctrace : ctrace[i].op # "store"
    /\ cret.err = "error expunging emails" =>
         /\ ctrace[3] = StoreReq(Range(cids))
         /\ ctrace[Len(ctrace)].op = "expunge"

C12_Witness ==
  /\ DeleteReturned
  /\ cret.err = "error expunging emails"
  /\ Len(ctrace) = 4

\* C13: at the moment DeleteEmailsOlderThan issues its store, and at the
\* moment it issues its expunge, the mailbox of the connection is selected
\* read-write, also while a WaitNewEmail goroutine runs on the same client.
C13_StoreInReadWrite ==
  [][ /\ (cpc = "del_search" /\ cpc' = "del_store") => mailbox = "rw"
      /\ (cpc = "del_store" /\ cpc' = "del_expunge") => mailbox = "rw" ]_vars

\* C14: while e.client is nil (no login has dialled a connection) Read and
\* DeleteEmailsOlderThan return their not-connected error and WaitNewEmail
\* returns a promise rejected with it; no transport request is issued and no
\* goroutine started; Logout does nothing.  These errors are returned in no
\* other case.
NotConnectedErrors ==
  { "Client not connected. Call login() first.", "client not connected. Call login() first" }

C14_NotConnectedFailsFast ==
  /\ [](client = "nil" =>
          /\ cpc = "idle" /\ creq = NoReq /\ ctrace = << >>
          /\ connState = "none" /\ mailbox = "none"
          /\ \A w \in Watchers :
               /\ wpc[w] \in {"unused", "done"}
               /\ wreq[w] = NoReq
               /\ iteration[w] = 0
               /\ hist[w].iterOps = << >> /\ hist[w].searches = 0
               /\ wpc[w] = "done" =>
                    /\ promise[w].state = "rejected"
                    /\ promise[w].err = "Client not connected. Call login() first."
          /\ cret.op = "Read" =>
               /\ cret.err = "Client not connected. Call login() first."
               /\ cret.value = NoValue
          /\ cret.op = "DeleteEmailsOlderThan" =>
               /\ cret.err = "client not connected. Call login() first"
               /\ cret.count = 0
          /\ cret.op = "Logout" => cret.err = "")
  /\ [](/\ cret.err \in NotConnectedErrors => ctrace = << >>
        /\ \A w \in Watchers : promise[w].err \in NotConnectedErrors => iteration[w] = 0)
  /\ [][(client = "nil" /\ client' = "nil" /\ cret'.op = "Logout") =>
          (cpc' = "idle" /\ UNCHANGED <<connvars, creq, ctrace, wvars>>)]_vars

C14_Witness ==
  /\ client = "nil"
  /\ promise[1].state = "rejected"
  /\ cret.op = "DeleteEmailsOlderThan"
  /\ cret.err = "client not connected. Call login() first"

\* C15: skippedIDs of a watch only grows, by the watch's own latestID after
\* its own fetch; it is empty when the goroutine starts; and it holds no id
\* the watch has not fetched itself, whatever other watches on the client,
\* earlier or concurrent, have skipped.
C15_SkippedOnlyGrows ==
  /\ [](\A w \in Watchers :
          /\ \A i \in skippedIDs[w] : hist[w].fetches[i] > 0
          /\ wpc[w] \in {"unused", "start"} => skippedIDs[w] = {})
  /\ [][\A w \in Watchers :
          /\ skippedIDs[w] \subseteq skippedIDs'[w]
          /\ (wpc[w] = "start" /\ wpc'[w] # "start") => skippedIDs'[w] = {}
          /\ skippedIDs'[w] # skippedIDs[w] =>
               /\ wpc[w] = "fetch" /\ wpc'[w] = "sleep"
               /\ skippedIDs'[w] = skippedIDs[w] \cup {latestID[w]}
               /\ \A v \in Watchers \ {w} : skippedIDs'[v] = skippedIDs[v]]_vars

C15_Witness ==
  /\ skippedIDs[1] = {1, 2}
  /\ wpc[1] = "sleep"
  /\ skippedIDs[2] = {}
  /\ wpc[2] = "fetch"
  /\ wreq[2].seqSet = {1}

\* The entries of header out under key k.
EntriesOf(out, k) == { e \in out : e[1] = k }
IsString(item) == item[1] = "string"
\* The string elements of a generic list, in their order.
StringsOf(items) ==
  LET kept == SelectSeq(items, IsString) IN [i \in DOMAIN kept |-> kept[i][2]]

\* C16: in the header convertJSObjectToMIMEHeader returns, every value list
\* is non-empty; a key whose value is neither a string nor a list, or a list
\* without a string element, is absent; a string gives a one-element list; a
\* list gives its string elements in their order.
C16_HeaderValuesNonEmpty ==
  cret.op = "convertJSObjectToMIMEHeader" =>
    LET obj == carg.headerObj
        out == cret.value
    IN  /\ \A e \in out : e[1] \in DOMAIN obj /\ Len(e[2]) > 0
        /\ \A k \in DOMAIN obj :
             /\ Cardinality(EntriesOf(out, k)) <= 1
             /\ obj[k][1] = "other" => EntriesOf(out, k) = {}
             /\ obj[k][1] = "string" => EntriesOf(out, k) = { <<k, << obj[k][2] >> >> }
             /\ obj[k][1] = "list" =>
                  EntriesOf(out, k) = IF StringsOf(obj[k][2]) = << >> THEN {}
                                      ELSE { <<k, StringsOf(obj[k][2])>> }
             /\ obj[k][1] = "strings" =>
                  EntriesOf(out, k) = IF obj[k][2] = << >> THEN {}
                                      ELSE { <<k, obj[k][2]>> }

RECURSIVE FieldsOf(_, _)
\* The header fields of a block of lines, up to its first blank line: the
\* lowered name of each field line and its value with its continuation lines.
FieldsOf(lines, acc) ==
  IF lines = << >> \/ Head(lines).kind = "blank" THEN acc
  ELSE LET line == Head(lines) IN
    CASE line.kind = "field" ->
           FieldsOf(Tail(lines), Append(acc, <<ToLower(line.name), << line.text >> >>))
      [] line.kind = "cont" /\ acc # << >> ->
           FieldsOf(Tail(lines),
                    [acc EXCEPT ![Len(acc)] = <<@[1], @[2] \o <<" ", line.text>> >>])
      [] OTHER -> FieldsOf(Tail(lines), acc)

\* The values of the fields named k, in encounter order.
ValuesOf(fields, k) ==
  LET named == SelectSeq(fields, LAMBDA f : f[1] = k)
  IN  [i \in DOMAIN named |-> named[i][2]]

\* C17: the headers messageToMap decodes from a header section: a name that
\* occurs once maps to its value, a name that occurs k >= 2 times (in any
\* case of its letters) maps to the list of its k values in encounter order,
\* wherever in the section its occurrences are.
C17_RepeatedHeadersFold ==
  cret.op = "messageToMap headers" =>
    LET fields == FieldsOf(carg.msg.Header, << >>)
        names == { fields[i][1] : i \in DOMAIN fields }
        out == cret.value
    IN  /\ names = {} => out = <<"absent">>
        /\ names # {} =>
             /\ out[1] = "map"
             /\ DOMAIN out[2] = names
             /\ \A k \in names :
                  out[2][k] = IF Len(ValuesOf(fields, k)) = 1
                                THEN <<"string", ValuesOf(fields, k)[1]>>
                                ELSE <<"list", ValuesOf(fields, k)>>

\* What one envelope address gives: mailbox@host, the mailbox alone, or
\* nothing.
Formatted(addr) ==
  IF addr.MailboxName = "" THEN << >>
  ELSE IF addr.HostName = "" THEN << <<addr.MailboxName>> >>
       ELSE << <<addr.MailboxName, "@", addr.HostName>> >>

RECURSIVE FormattedAll(_)
FormattedAll(From) ==
  IF From = << >> THEN << >> ELSE Formatted(Head(From)) \o FormattedAll(Tail(From))

\* C18: the from key messageToMap decodes from the envelope: each address
\* gives mailbox@host, or the mailbox alone, or nothing; from is a string for
\* one formatted address, a list for more than one, and absent for none, also
\* when the From list holds addresses none of which has a mailbox.
C18_FromScalarListOrAbsent ==
  cret.op = "messageToMap from" =>
    LET formatted == FormattedAll(carg.msg.From) IN
      cret.value = CASE Len(formatted) = 0 -> <<"absent">>
                     [] Len(formatted) = 1 -> <<"string", formatted[1]>>
                     [] OTHER -> <<"list", formatted>>

\* C19: the module-level Read always comes to its return: while it runs, one
\* of its steps can be taken, whatever the number of ids the search answered;
\* and what it returns is a body with an empty error or no body with an error.
C19_ModuleReadReturns ==
  /\ cpc \in ModulePcs => ENABLED ModuleStep
  /\ (cpc = "idle" /\ cret.op = "ModuleRead") =>
       \/ cret.err = "" /\ cret.value # NoValue
       \/ cret.err # "" /\ cret.value = NoValue

\* The highest id of a search answer.
Highest(s) == CHOOSE i \in Range(s) : \A j \in Range(s) : j <= i
\* The fetches among the requests of an iteration.
FetchesOf(ops) == SelectSeq(ops, LAMBDA q : q.op = "fetch")

\* C20: an iteration of the goroutine issues at most one fetch, for one id:
\* the highest id of the iteration's search answer; and no other id of the
\* answer is added to skippedIDs in the iteration.
C20_FetchHighestId ==
  /\ [](\A w \in Watchers :
          /\ Len(FetchesOf(hist[w].iterOps)) <= 1
          /\ \A i \in DOMAIN hist[w].iterOps :
               hist[w].iterOps[i].op = "fetch" =>
                 /\ i = Len(hist[w].iterOps)
                 /\ ids[w] # << >>
                 /\ hist[w].iterOps[i].seqSet = { Highest(ids[w]) })
  /\ [][\A w \in Watchers :
          skippedIDs'[w] # skippedIDs[w] =>
            skippedIDs'[w] = skippedIDs[w] \cup { Highest(ids[w]) }]_vars

\* The requests a Read that returned error e has issued.
ReadOps(e) ==
  CASE e = "SelectError"       -> << "select" >>
    [] e = "SearchError"       -> << "select", "search" >>
    [] e = "No messages found" -> << "select", "search" >>
    [] OTHER                   -> << "select", "search", "fetch" >>

ReadPcs == {"read_select", "read_search", "read_fetch"}
ReadReturned == cpc = "idle" /\ cret.op = "Read"

\* C21: Read on a client whose handle is set issues a read-only select, a
\* search and at most one fetch, of the last id of the search answer, in that
\* order; it returns a record and no error, or no record and an error; a
\* select, search or fetch error is returned with no request after it, and an
\* empty search answer returns "No messages found" without a fetch.
C21_ReadOneShot ==
  /\ (cpc \in ReadPcs \/ (ReadReturned /\ ctrace # << >>)) =>
       /\ Len(ctrace) <= 3
       /\ Ops(ctrace) = SubSeq(<< "select", "search", "fetch" >>, 1, Len(ctrace))
       /\ ctrace[1] = SelectReq(TRUE)
       /\ Len(ctrace) >= 2 =>
            ctrace[2] = SearchReq(convertJSObjectToMIMEHeader(carg.headerObj), ZeroTime, ZeroTime)
       /\ Len(ctrace) = 3 =>
            /\ cids # << >>
            /\ ctrace[3].seqSet = { cids[Len(cids)] }
            /\ ctrace[3].items = ReadItems
  /\ cpc \in ReadPcs => (cerr = "" /\ creq = ctrace[Len(ctrace)])
  /\ (ReadReturned /\ client # "nil") =>
       /\ ctrace # << >>
       /\ \/ cret.err = "" /\ cret.value # NoValue
          \/ cret.err # "" /\ cret.value = NoValue
       /\ cret.err \in {"", "SelectError", "SearchError", "No messages found",
                        "FetchError", "No message"}
       /\ Ops(ctrace) = ReadOps(cret.err)
       /\ cerr # "" => (cret.err # "" /\ ctrace[Len(ctrace)].op = cerr)
       /\ cret.err = "No messages found" <=> (cerr = "" /\ Len(ctrace) = 2)
       /\ Len(ctrace) = 2 /\ cerr = "" => cids = << >>
       /\ cret.err = "" => cret.value.uid = cids[Len(cids)]

C21_Witness ==
  /\ ReadReturned
  /\ cret.err = ""
  /\ Len(cids) = 2
  /\ cret.value.uid = cids[2]
  /\ Len(ctrace) = 3

\* The requests that leave the mailbox as it is.
ReadOnlyReq(q) ==
  /\ q.op \in {"select", "search", "fetch"}
  /\ q.op = "select" => q.readOnly

\* C22: the goroutine of WaitNewEmail and Read issue only read-only selects,
\* searches and fetches, never a store or an expunge; and every search of a
\* watch carries the same lower bound, startTime minus one second, and the
\* same header, the translation of the headerObj it was called with.
C22_ReadOnlyAndFixedCriteria ==
  /\ [](\A w \in Watchers :
          /\ wreq[w] # NoReq => ReadOnlyReq(wreq[w])
          /\ \A i \in DOMAIN hist[w].iterOps :
               /\ ReadOnlyReq(hist[w].iterOps[i])
               /\ hist[w].iterOps[i].op = "search" =>
                    /\ hist[w].iterOps[i].since = startTime[w] - 1
                    /\ hist[w].iterOps[i].header = convertJSObjectToMIMEHeader(headerObj[w])
                    /\ hist[w].iterOps[i].before = ZeroTime
          /\ Started(w) =>
               /\ searchSince[w] = startTime[w] - 1
               /\ header[w] = convertJSObjectToMIMEHeader(headerObj[w]))
  /\ []((cpc \in ReadPcs \/ ReadReturned) =>
          \A i \in DOMAIN ctrace : ReadOnlyReq(ctrace[i]))
  /\ [](mailbox # "rw")
  /\ [][\A w \in Watchers :
          wpc[w] \notin {"unused", "start"} =>
            /\ startTime'[w] = startTime[w]
            /\ searchSince'[w] = searchSince[w]
            /\ header'[w] = header[w]
            /\ headerObj'[w] = headerObj[w]]_vars

C22_Witness ==
  /\ iteration[1] = 2
  /\ wpc[1] = "search"
  /\ wreq[1].since = startTime[1] - 1
  /\ now >= startTime[1] + PollInterval
  /\ wreq[1].header # {}
  /\ cpc = "read_fetch"

\* C23: e.client is set by the step of Login in which the dial succeeds,
\* before the authentication is answered, and no step clears it: not the
\* return of Login with an authentication error, not Logout.  While it is set,
\* Read, DeleteEmailsOlderThan and WaitNewEmail pass their test of it, whatever
\* the state of the connection: they issue a select and never return the
\* not-connected error.  It is unset only while no dial has succeeded.
C23_HandleNeverCleared ==
  /\ [][client = "conn" => client' = "conn"]_vars
  /\ [][(client = "nil" /\ client' = "conn") =>
          (cpc = "idle" /\ cpc' = "login" /\ connState' = "notauth")]_vars
  /\ [](client = "nil" <=> connState = "none")
  /\ []((client = "nil" /\ cret.op = "Login") => cret.err = "DialError")
  /\ []((cret.op = "Login" /\ cret.err = "AuthError") =>
          (client = "conn" /\ connState = "notauth"))
  /\ [](connState = "logout" => client = "conn")
  /\ [][(client = "conn" /\ cpc = "idle" /\ cpc' # "idle") =>
          /\ cpc' \in {"read_select", "del_select", "login", "logout"}
          /\ cpc' = "read_select" => (creq' = SelectReq(TRUE) /\ ctrace' = << creq' >>)
          /\ cpc' = "del_select" => (creq' = SelectReq(FALSE) /\ ctrace' = << creq' >>)]_vars
  /\ [][(client = "conn" /\ cpc = "idle" /\ cpc' = "idle" /\ cret' # cret) =>
          cret'.op \in {"Login", "WaitNewEmail"}]_vars
  /\ [][(client = "conn" /\ cret' # cret) => cret'.err \notin NotConnectedErrors]_vars
  /\ []((client = "conn" /\ cpc # "login") => cret.err \notin NotConnectedErrors)
  /\ [][\A w \in Watchers :
          /\ (client = "conn" /\ wpc[w] = "unused" /\ wpc'[w] # "unused") =>
               (wpc'[w] = "start" /\ promise'[w] = promise[w])
          /\ (wpc[w] = "start" /\ wpc'[w] # "start") => wpc'[w] = "top"
          /\ (wpc[w] = "top" /\ wpc'[w] # "top") => wpc'[w] \in {"select", "done"}
          /\ (wpc'[w] = "select" /\ wpc[w] # "select") => wreq'[w] = SelectReq(TRUE)]_vars

C23_Witness ==
  /\ client = "conn"
  /\ connState = "logout"
  /\ cpc = "del_select"
  /\ creq = SelectReq(FALSE)
  /\ wpc[1] = "select"
  /\ wreq[1] = SelectReq(TRUE)

=============================================================================
